---- MODULE Spec2Model ----
(***************************************************************************)
(* PageMind, src/server/index.js: the ingestion pipeline                   *)
(*   ingest -> deleteEmbeddingsForUrl -> scrapeWebpage -> splitIntoChunks  *)
(*          -> generateVectorEmbeddings -> addToVectorDB                   *)
(* run by several concurrent ingest calls against one Chroma collection    *)
(* (Spec, and FairSpec where every awaited call returns or fails),         *)
(* splitIntoChunks called on its own (ChunkerSpec), and chat over the      *)
(* collections ingest leaves (ChatSpec).                                   *)
(* JavaScript runs each call atomically between two awaits, so every       *)
(* action below is the code from one await to the next.                    *)
(*                                                                         *)
(* Strings are sequences of one-character strings, so that startsWith,     *)
(* slice and the template `${url}_chunk_${chunkIndex}` are computed as the *)
(* code computes them.                                                     *)
(***************************************************************************)
EXTENDS Integers, Sequences, FiniteSets, Bags, TLC

\* ---------------------------------------------------------------- bounds
\* number of ingest calls issued in one run
MaxCalls == 2
\* longest body the fetcher returns
MaxBodyLen == 2
\* longest text handed to splitIntoChunks directly
MaxTextLen == 5
\* largest numChunks handed to splitIntoChunks directly, beside ingest's 100
MaxCount == 4
\* longest page the collection holds when chat is called
MaxPageLen == 2

\* ------------------------------------------------------------- constants
\* splitIntoChunks(body, 100)
NumChunks == 100

Calls == 1..MaxCalls

\* the URLs handed to ingest: "a" is a literal prefix of "ab", "c" is
\* unrelated to both
URLS == { <<"a">>, <<"a", "b">>, <<"c">> }

\* the text of the pages as the fetcher finds them now
PageText == <<"p", "q", "r", "s", "t", "u">>

\* what $("body").html() can return: the first n characters of the page;
\* <<>> stands for both "" and null, which `!body` does not tell apart
Bodies == { SubSeq(PageText, 1, n) : n \in 0..MaxBodyLen }

\* what $("head").html() can return
MetaDatas == {"m1"}

\* the value of a destructured property the caller did not pass
Undefined == "undefined"

\* --------------------------------------------------------- pure functions
Min(a, b) == IF a < b THEN a ELSE b

\* Math.ceil(a / b) for a >= 0, b > 0
Ceil(a, b) == (a + b - 1) \div b

\* a slice that starts one character late
Slice_late(text, from, to) == SubSeq(text, from + 2, Min(to, Len(text)))

\* text.slice(from, to) with 0 <= from, zero-based, `to` exclusive
Slice(text, from, to) == SubSeq(text, from + 1, Min(to, Len(text)))

\* a loop that stops before a last, shorter chunk
RECURSIVE ChunksFrom_fullOnly(_, _, _)
ChunksFrom_fullOnly(text, i, chunkSize) ==
    IF i < Len(text) /\ i + chunkSize <= Len(text)
    THEN <<Slice(text, i, i + chunkSize)>> \o ChunksFrom_fullOnly(text, i + chunkSize, chunkSize)
    ELSE <<>>

\* the loop of splitIntoChunks from offset i, chunkSize > 0
RECURSIVE ChunksFrom(_, _, _)
ChunksFrom(text, i, chunkSize) ==
    IF i < Len(text)
    THEN <<Slice(text, i, i + chunkSize)>> \o ChunksFrom(text, i + chunkSize, chunkSize)
    ELSE <<>>

\* splitIntoChunks(text, numChunks) for numChunks > 0 (the code throws
\* otherwise; ingest always passes 100)
splitIntoChunks(text, numChunks) ==
    ChunksFrom(text, 0, Ceil(Len(text), numChunks))

Digit(d) == CASE d = 0 -> "0" [] d = 1 -> "1" [] d = 2 -> "2" [] d = 3 -> "3"
              [] d = 4 -> "4" [] d = 5 -> "5" [] d = 6 -> "6" [] d = 7 -> "7"
              [] d = 8 -> "8" [] d = 9 -> "9"

\* the decimal text of a non-negative integer, as a template literal prints it
RECURSIVE DecimalString(_)
DecimalString(n) ==
    IF n < 10 THEN <<Digit(n)>> ELSE DecimalString(n \div 10) \o <<Digit(n % 10)>>

\* `${url}_chunk_${chunkIndex}`
uniqueId(url, chunkIndex) ==
    url \o <<"_", "c", "h", "u", "n", "k", "_">> \o DecimalString(chunkIndex)

\* id.startsWith(url)
startsWith(id, url) ==
    /\ Len(url) <= Len(id)
    /\ SubSeq(id, 1, Len(url)) = url

\* embedding.data[0].embedding: the embedding service is a function of the text
generateVectorEmbeddings(text) == [of |-> text]

\* ------------------------------------------------------------------ state
VARIABLES
    store,      \* the records of WEB_COLLECTION: a bag, so that two records
                \* with one id can be told from one
    call,       \* call[c]: ingest call c: the await at which it is suspended
                \* (pc), its local variables, the lines its last logging step
                \* wrote to the console (logged), what its last addToVectorDB
                \* returned (upserted), which calls were in flight while it
                \* was (overlap: "none", "unrelated" when neither URL is a
                \* prefix of the other, "related"), and, as long as it runs
                \* alone, the ids the store held when it was called
    previous,   \* the call that returned last, as long as calls run one after
                \* the other: its url, body, loop index, outcome, the ids the
                \* store held when it was called and when it returned, and
                \* the url, body and outcome of the call before it (prior)
    chatCall,   \* the chat call: the await at which it is suspended (pc), its
                \* local variables, the messages the generative service was
                \* given (asked), the object it logged and how it ended
    chunker     \* a direct call of splitIntoChunks: its arguments and outcome

vars == <<store, call, previous, chatCall, chunker>>

\* a call that has not started (pc = "idle") or has returned (pc = "done"):
\* its locals are out of scope
NoLocals(pc, logged, overlap) ==
    [pc |-> pc, url |-> <<>>, idsToDelete |-> {}, body |-> <<>>,
     metaData |-> Undefined, i |-> 0,
     chunkedBodyEmbeddings |-> generateVectorEmbeddings(<<>>),
     logged |-> logged, upserted |-> "none", overlap |-> overlap, idsAtStart |-> {}]

NoPrior == [url |-> <<>>, body |-> <<>>, outcome |-> "none"]

NoPrevious ==
    [url |-> <<>>, body |-> <<>>, i |-> 0, outcome |-> "none",
     idsAtStart |-> {}, ids |-> {}, prior |-> NoPrior]

\* embeddings.ids of collection.get(): one id per record held
Ids(st) == { r.id : r \in BagToSet(st) }

\* bodyChunks of call c
bodyChunks(c) == splitIntoChunks(call[c].body, NumChunks)

InFlight(c) == call[c].pc \notin {"idle", "done"}

\* u is a literal prefix of s
HasPrefix(s, u) == Len(u) <= Len(s) /\ \A k \in 1..Len(u) : s[k] = u[k]

\* neither URL is a literal prefix of the other
Unrelated(u, v) == ~HasPrefix(u, v) /\ ~HasPrefix(v, u)

\* ------------------------------------------------------- the vector store
\* a check that never finds the id
CollectionHas_never(st, id) == FALSE

\* collection.get({ ids: [id] }).ids.length > 0
CollectionHas(st, id) == \E r \in BagToSet(st) : r.id = id

\* a delete that ignores `ids` and empties the collection
CollectionDelete_all(st, ids) == EmptyBag

\* collection.delete({ ids })
CollectionDelete(st, ids) ==
    LET kept == { r \in BagToSet(st) : r.id \notin ids } IN [r \in kept |-> st[r]]

\* collection.add of a record whose id the collection does not hold
CollectionAdd(st, rec) == st (+) SetToBag({rec})

\* a collection that stores the second record beside the first
CollectionAddExisting_both(st, rec) == { st (+) SetToBag({rec}) }

\* collection.add of a record whose id the collection holds already: the
\* collection keeps the record it has, or takes the new one in its place
CollectionAddExisting(st, rec) ==
    { st, CollectionAdd(CollectionDelete(st, {rec.id}), rec) }

\* the arguments ingest passes to addToVectorDB for chunk chunkIndex of a page
AddArgs(u, m, chunks, chunkIndex) ==
    [embedding |-> generateVectorEmbeddings(chunks[chunkIndex + 1]), url |-> u,
     metaData |-> m, body |-> chunks[chunkIndex + 1]]

\* addToVectorDB({ embedding, url, body = '', head }, chunkIndex): the record
\* it hands to collection.add
NewRecord(args, chunkIndex) ==
    [id |-> uniqueId(args.url, chunkIndex),
     embedding |-> args.embedding,
     metadata |-> [url |-> args.url,
                   body |-> IF "body" \in DOMAIN args THEN args.body ELSE <<>>,
                   head |-> IF "head" \in DOMAIN args THEN args.head ELSE Undefined,
                   chunkIndex |-> chunkIndex]]

\* the collection is persistent: what an earlier run's ingest(u), whose fetch
\* returned body b and metaData m, left in it
Ingested(u, b, m) ==
    LET chunks == splitIntoChunks(b, NumChunks)
    IN  SetToBag({ NewRecord(AddArgs(u, m, chunks, k), k) : k \in 0..(Len(chunks) - 1) })

\* the body of the page an earlier run ingested
OldBody == [k \in 1..MaxBodyLen |-> "x"]

\* the collection when the process starts: empty, or holding the page "ab"
InitialStores == { EmptyBag, Ingested(<<"a", "b">>, OldBody, "m0") }

\* no chat call is made
NoChat ==
    [pc |-> "idle", question |-> <<>>, questionEmbedding |-> Undefined,
     collectionResult |-> <<>>, body |-> <<>>, url |-> <<>>,
     asked |-> <<>>, logged |-> <<>>, outcome |-> "none"]

\* splitIntoChunks is not called directly
NoSplit == [pc |-> "idle", text |-> <<>>, numChunks |-> NumChunks, chunks |-> <<>>]

Init ==
    /\ store \in InitialStores
    /\ call = [c \in Calls |-> NoLocals("idle", <<>>, "none")]
    /\ previous = NoPrevious
    /\ chatCall = NoChat
    /\ chunker = NoSplit

\* ---------------------------------------------------------------- ingest
\* call c returns to its caller after logging `lines`, the store being st
Return(c, oc, lines, st) ==
    /\ call' = [call EXCEPT ![c] = NoLocals("done", lines, call[c].overlap)]
    /\ previous' = IF call[c].overlap = "none"
                   THEN [url |-> call[c].url, body |-> call[c].body, i |-> call[c].i,
                         outcome |-> oc, idsAtStart |-> call[c].idsAtStart,
                         ids |-> Ids(st),
                         prior |-> [url |-> previous.url, body |-> previous.body,
                                    outcome |-> previous.outcome]]
                   ELSE NoPrevious

\* without the catch block: the rejection leaves ingest, nothing is logged
Catch_rethrows(c) == Return(c, "raised", <<>>, store)

\* the catch block of ingest
Catch(c) == Return(c, "caught", <<"error">>, store)

\* whom call c, ingesting u, finds in flight
Company(c, u) ==
    IF \E d \in Calls \ {c} : InFlight(d) /\ ~Unrelated(call[d].url, u) THEN "related"
    ELSE IF \E d \in Calls \ {c} : InFlight(d) THEN "unrelated"
    ELSE "none"

Worse(a, b) ==
    IF "related" \in {a, b} THEN "related"
    ELSE IF "unrelated" \in {a, b} THEN "unrelated" ELSE "none"

\* ingest(u) is called: the code up to the first await
ingest(c, u) ==
    /\ call[c].pc = "idle"
    /\ \A d \in Calls : d < c => call[d].pc # "idle"
    /\ call' = [d \in Calls |->
                  IF d = c
                  THEN [call[c] EXCEPT !.pc = "scan", !.url = u,
                                       !.logged = <<"ingesting">>,
                                       !.overlap = Company(c, u),
                                       !.idsAtStart = IF Company(c, u) = "none"
                                                      THEN Ids(store) ELSE {}]
                  ELSE IF ~InFlight(d) THEN call[d]
                  ELSE [call[d] EXCEPT !.idsAtStart = {},
                                       !.overlap =
                                          IF Unrelated(call[d].url, u)
                                          THEN Worse(@, "unrelated")
                                          ELSE "related"]]
    /\ previous' = IF Company(c, u) = "none" THEN previous ELSE NoPrevious
    /\ UNCHANGED store
    /\ UNCHANGED <<chatCall, chunker>>

\* a purge that selects nothing
IdsToDelete_none(ids, u) == {}

\* a purge without the filter
IdsToDelete_all(ids, u) == ids

\* embeddings.ids.filter((id) => id.startsWith(url))
IdsToDelete(ids, u) == { id \in ids : startsWith(id, u) }

\* a purge whose delete is never issued: the fetch follows the scan
deleteEmbeddingsForUrl_get_only(c) ==
    /\ call[c].pc = "scan"
    /\ call' = [call EXCEPT ![c] = [@ EXCEPT !.pc = "fetch"]]
    /\ UNCHANGED <<store, previous>>
    /\ UNCHANGED <<chatCall, chunker>>

\* deleteEmbeddingsForUrl: collection.get() and the filter on its ids
deleteEmbeddingsForUrl_get(c) ==
    /\ call[c].pc = "scan"
    /\ LET ids == IdsToDelete(Ids(store), call[c].url)
       IN  call' = [call EXCEPT ![c] =
                      [@ EXCEPT !.idsToDelete = ids,
                                !.pc = IF Cardinality(ids) > 0 THEN "delete" ELSE "fetch"]]
    /\ UNCHANGED <<store, previous>>
    /\ UNCHANGED <<chatCall, chunker>>

\* deleteEmbeddingsForUrl: collection.delete({ ids: idsToDelete })
deleteEmbeddingsForUrl_delete(c) ==
    /\ call[c].pc = "delete"
    /\ store' = CollectionDelete(store, call[c].idsToDelete)
    /\ call' = [call EXCEPT ![c] =
                  [@ EXCEPT !.pc = "fetch", !.idsToDelete = {}, !.logged = <<"deleted">>]]
    /\ UNCHANGED previous
    /\ UNCHANGED <<chatCall, chunker>>

\* scrapeWebpage returns a body: the size of bodyChunks is logged and the
\* loop is entered
scrapeWebpage(c) ==
    /\ call[c].pc = "fetch"
    /\ \E b \in Bodies \ {<<>>}, m \in MetaDatas :
         call' = [call EXCEPT ![c] =
                    [@ EXCEPT !.body = b, !.metaData = m, !.i = 0, !.pc = "embed",
                              !.logged = <<"split">>]]
    /\ UNCHANGED <<store, previous>>
    /\ UNCHANGED <<chatCall, chunker>>

\* without the `if (!body)` test: no chunks, the loop is skipped, success
scrapeWebpage_empty_untested(c) ==
    /\ call[c].pc = "fetch"
    /\ Return(c, "success", <<"split", "successful">>, store)
    /\ UNCHANGED store
    /\ UNCHANGED <<chatCall, chunker>>

\* scrapeWebpage returns no body: `if (!body)` logs and returns
scrapeWebpage_empty(c) ==
    /\ call[c].pc = "fetch"
    /\ Return(c, "emptyBody", <<"emptyBody">>, store)
    /\ UNCHANGED store
    /\ UNCHANGED <<chatCall, chunker>>

\* generateVectorEmbeddings({ text: chunk }) returns and addToVectorDB is called
embedChunk(c) ==
    /\ call[c].pc = "embed"
    /\ call' = [call EXCEPT ![c] =
                  [@ EXCEPT !.chunkedBodyEmbeddings =
                               generateVectorEmbeddings(bodyChunks(c)[call[c].i + 1]),
                            !.pc = "check"]]
    /\ UNCHANGED <<store, previous>>
    /\ UNCHANGED <<chatCall, chunker>>

\* what addToVectorDB returns after a skip (`return;`) and after an insert
\* (the end of the function body)
UpsertResult(inserted) == Undefined

\* a loop without `i++`
NextChunk_again(c, line, inserted, st) ==
    /\ call' = [call EXCEPT ![c] = [@ EXCEPT !.pc = "embed", !.logged = <<line>>]]
    /\ UNCHANGED previous

\* addToVectorDB has returned after logging `line`, the store being st: i++,
\* the loop test, and the code after the loop
NextChunk(c, line, inserted, st) ==
    IF call[c].i + 1 < Len(bodyChunks(c))
    THEN /\ call' = [call EXCEPT ![c] =
                       [@ EXCEPT !.i = @ + 1, !.pc = "embed", !.logged = <<line>>,
                                 !.upserted = UpsertResult(inserted)]]
         /\ UNCHANGED previous
    ELSE Return(c, "success", <<line, "successful">>, st)

\* addToVectorDB: collection.get({ ids: [uniqueId] }) finds the id: skip
addToVectorDB_skip(c) ==
    /\ call[c].pc = "check"
    /\ CollectionHas(store, uniqueId(call[c].url, call[c].i))
    /\ NextChunk(c, "exists", FALSE, store)
    /\ UNCHANGED store
    /\ UNCHANGED <<chatCall, chunker>>

\* addToVectorDB: collection.get({ ids: [uniqueId] }) finds nothing
addToVectorDB_get(c) ==
    /\ call[c].pc = "check"
    /\ ~CollectionHas(store, uniqueId(call[c].url, call[c].i))
    /\ call' = [call EXCEPT ![c] = [@ EXCEPT !.pc = "add"]]
    /\ UNCHANGED <<store, previous>>
    /\ UNCHANGED <<chatCall, chunker>>

\* addToVectorDB: collection.add; an id that another call has added since
\* the check is handled as the collection defines
addToVectorDB_add(c) ==
    /\ call[c].pc = "add"
    /\ LET rec == NewRecord([AddArgs(call[c].url, call[c].metaData, bodyChunks(c), call[c].i)
                               EXCEPT !.embedding = call[c].chunkedBodyEmbeddings],
                             call[c].i)
       IN  /\ store' \in IF CollectionHas(store, rec.id)
                         THEN CollectionAddExisting(store, rec)
                         ELSE {CollectionAdd(store, rec)}
           /\ NextChunk(c, "added", TRUE, store')
    /\ UNCHANGED <<chatCall, chunker>>

\* a catch block that removes what the call has written
awaitRejects_rollsBack(c) ==
    /\ InFlight(c)
    /\ Catch(c)
    /\ store' = CollectionDelete(store, { r.id : r \in { q \in BagToSet(store) :
                                                           q.metadata.url = call[c].url } })
    /\ UNCHANGED <<chatCall, chunker>>

\* the awaited collaborator call (store, fetcher, embedding service) rejects;
\* a collection.add of an id the collection holds may be rejected this way
awaitRejects(c) ==
    /\ InFlight(c)
    /\ Catch(c)
    /\ UNCHANGED store
    /\ UNCHANGED <<chatCall, chunker>>

Next ==
    \E c \in Calls :
        \/ \E u \in URLS : ingest(c, u)
        \/ deleteEmbeddingsForUrl_get(c)
        \/ deleteEmbeddingsForUrl_delete(c)
        \/ scrapeWebpage(c)
        \/ scrapeWebpage_empty(c)
        \/ embedChunk(c)
        \/ addToVectorDB_skip(c)
        \/ addToVectorDB_get(c)
        \/ addToVectorDB_add(c)
        \/ awaitRejects(c)

Spec == Init /\ [][Next]_vars

\* call c goes on from the await at which it is suspended: the collaborator
\* call it awaits returns or fails
Resumes(c) ==
    \/ deleteEmbeddingsForUrl_get(c)
    \/ deleteEmbeddingsForUrl_delete(c)
    \/ scrapeWebpage(c)
    \/ scrapeWebpage_empty(c)
    \/ embedChunk(c)
    \/ addToVectorDB_skip(c)
    \/ addToVectorDB_get(c)
    \/ addToVectorDB_add(c)
    \/ awaitRejects(c)

\* every collaborator call eventually returns or fails
FairSpec == Spec /\ \A c \in Calls : WF_vars(Resumes(c))

\* ------------------------------------------------------------- properties
NoneInFlight == \A c \in Calls : ~InFlight(c)

\* the records of st whose identifier has u as a prefix
RecordsOf(st, u) == { r \in BagToSet(st) : HasPrefix(r.id, u) }

\* the records of u in st are exactly one record for each of the first n
\* chunks of body b, each with its identifier, its index and its text
HoldsChunks(st, u, b, n) ==
    LET chunks == splitIntoChunks(b, NumChunks)
    IN  /\ \A r \in RecordsOf(st, u) :
              /\ st[r] = 1
              /\ r.metadata.url = u
              /\ r.metadata.chunkIndex \in 0..(n - 1)
              /\ r.id = uniqueId(u, r.metadata.chunkIndex)
              /\ r.metadata.body = chunks[r.metadata.chunkIndex + 1]
        /\ \A k \in 0..(n - 1) :
              Cardinality({ r \in RecordsOf(st, u) : r.metadata.chunkIndex = k }) = 1

\* the fetcher returned a body to the call recorded in p
Fetched(p) ==
    \/ p.outcome \in {"success", "emptyBody"}
    \/ p.outcome = "caught" /\ p.body # <<>>

C3_FullReplace ==
    (previous.outcome = "success" /\ NoneInFlight)
    => HoldsChunks(store, previous.url, previous.body, Len(splitIntoChunks(previous.body, NumChunks)))

\* a one-chunk body has replaced an ingestion that had left a chunk 1
C3_Witness ==
    /\ previous.outcome = "success" /\ NoneInFlight
    /\ Len(previous.body) = 1
    /\ uniqueId(previous.url, 1) \in previous.idsAtStart
    /\ uniqueId(previous.url, 0) \in Ids(store)

\* what the upsert contract's `inserted: false` would be
InsertedFalse == "inserted: false"

StoreAwaits == {"scan", "delete", "check", "add"}

\* after its purge scan and before its return, a call is between its purge
\* and its last upsert
InPurgeToLastUpsert(d) == call[d].pc \in {"delete", "fetch", "embed", "check", "add"}

\* C5: ingestion is serialized per URL: while one call is between its purge
\* and its last upsert, no other call on the same URL takes a store step.
C5_SerializedPerUrl ==
    [][\A c, d \in Calls :
         (/\ c # d
          /\ call[c].url = call[d].url
          /\ InPurgeToLastUpsert(d)
          /\ call[c].pc \in StoreAwaits)
         => call'[c].pc = call[c].pc]_vars

\* C6: the purge of ingest(U) removes no record that belongs to another URL,
\* even one that has U as a literal prefix.
C6_PurgeSparesOtherUrls ==
    [][\A c \in Calls :
         (call[c].pc = "delete" /\ call'[c].pc = "fetch")
         => \A r \in BagToSet(store) :
                r.metadata.url # call[c].url => r \in BagToSet(store')]_vars

\* a call that has returned takes no further step
Returned(c) == call[c].pc = "done" => call'[c] = call[c]

\* C7: when the fetch returns no body, ingest logs it and returns: that step
\* writes nothing to the store, the call takes no further step (no embedding
\* call, no add, no delete), and with no other call in flight the store holds
\* what the purge left: the identifiers it held at the call, less those with
\* url as prefix.
C7_EmptyBodyStops ==
    [][\A c \in Calls :
         /\ (/\ call[c].pc = "fetch"
             /\ call'[c].pc = "done"
             /\ call'[c].logged # <<"error">>)
            => /\ call'[c].logged = <<"emptyBody">>
               /\ store' = store
               /\ call[c].overlap = "none"
                  => Ids(store') = { id \in call[c].idsAtStart : ~HasPrefix(id, call[c].url) }
         /\ Returned(c)]_vars

\* an ingest has purged records and then returned on an empty body
C7_Witness ==
    /\ previous.outcome = "emptyBody"
    /\ previous.ids # previous.idsAtStart
    /\ \E c \in Calls : call[c].pc = "done" /\ call[c].logged = <<"emptyBody">>

\* C8: ingest never raises to its caller: every call that returns has logged
\* success, the empty body or the caught error as its last line; the step
\* that catches a failure leaves the store and every other call as they are.
C8_FailuresAreCaught ==
    [][\A c \in Calls :
         /\ call'[c].pc = "done"
            => /\ call'[c].logged # <<>>
               /\ call'[c].logged[Len(call'[c].logged)] \in {"successful", "emptyBody", "error"}
         /\ (InFlight(c) /\ call'[c].pc = "done" /\ call'[c].logged = <<"error">>)
            => /\ store' = store
               /\ \A d \in Calls \ {c} : call'[d] = call[d]]_vars

\* one call has ended in the catch block, and a call on another URL that
\* overlapped it has ended successfully
C8_Witness ==
    \E c, d \in Calls :
        /\ c # d
        /\ call[c].pc = "done" /\ call[c].logged = <<"error">>
        /\ call[d].pc = "done" /\ call[d].logged = <<"added", "successful">>
        /\ call[c].overlap = "unrelated" /\ call[d].overlap = "unrelated"

\* C9: when the embedding or the storing of chunk i fails, the catch step
\* leaves the store as it is (nothing rolled back, nothing written), the call
\* returns and takes no further step (no retry, no chunk j >= i); with no
\* other call in flight the store holds exactly the chunks 0..i-1 of url.
C9_NoRollbackNoRetry ==
    [][\A c \in Calls :
         /\ (call[c].pc \in {"embed", "check", "add"} /\ call'[c].logged = <<"error">>)
            => /\ store' = store
               /\ call'[c].pc = "done"
               /\ call[c].overlap = "none"
                  => HoldsChunks(store', call[c].url, call[c].body, call[c].i)
         /\ Returned(c)]_vars

\* an ingest failed at chunk 1: chunk 0 is in the store, chunk 1 is not
C9_Witness ==
    /\ previous.outcome = "caught"
    /\ previous.i = 1
    /\ NoneInFlight
    /\ uniqueId(previous.url, 0) \in Ids(store)
    /\ uniqueId(previous.url, 1) \notin Ids(store)

\* the records of u, with their multiplicity, are the same in st1 and st2
SameRecordsOf(st1, st2, u) ==
    /\ RecordsOf(st1, u) = RecordsOf(st2, u)
    /\ \A r \in RecordsOf(st1, u) : st1[r] = st2[r]

\* C10: for URLs A and B neither of which is a prefix of the other, no step of
\* an ingest of B adds, changes or deletes a record whose identifier has A as
\* prefix; and an ingest of A that overlapped only calls on such URLs B returns
\* with the records for A that it leaves when run alone: exactly the chunks it
\* completed (all of them on success, none on an empty body or a failed
\* fetch, 0..i-1 on a failure at chunk i).
C10_UnrelatedUrlsIndependent ==
    [][\A c \in Calls :
         /\ call'[c].pc # call[c].pc
            => \A a \in URLS :
                 Unrelated(a, IF call[c].pc = "idle" THEN call'[c].url ELSE call[c].url)
                 => SameRecordsOf(store, store', a)
         /\ (/\ call[c].pc \in {"fetch", "embed", "check", "add"}
             /\ call'[c].pc = "done"
             /\ call[c].overlap # "related")
            => HoldsChunks(store', call[c].url, call[c].body,
                           IF call'[c].logged \in {<<"error">>, <<"emptyBody">>}
                           THEN call[c].i ELSE Len(bodyChunks(c)))]_vars

\* an ingest that overlapped a call on an unrelated URL has ended
\* successfully, and the store holds records of two unrelated URLs
C10_Witness ==
    /\ \E c \in Calls :
         /\ call[c].pc = "done"
         /\ call[c].overlap = "unrelated"
         /\ call[c].logged = <<"added", "successful">>
    /\ \E r1, r2 \in BagToSet(store) : Unrelated(r1.metadata.url, r2.metadata.url)

\* C11: every record ingest(url) inserts for chunk i carries the metadata
\* {url, body, head, chunkIndex} with url the ingested URL, body the text of
\* chunk i, chunkIndex i and head the metaData the fetcher returned.
C11_HeadIsFetchedMetadata ==
    [][\A c \in Calls :
         call[c].pc = "add"
         => \A r \in BagToSet(store') :
              (r.id = uniqueId(call[c].url, call[c].i) /\ r \notin BagToSet(store))
              => r.metadata = [url |-> call[c].url,
                               body |-> bodyChunks(c)[call[c].i + 1],
                               head |-> call[c].metaData,
                               chunkIndex |-> call[c].i]]_vars

\* ------------------------------------------------- splitIntoChunks alone
\* the characters of a text
TextChars == {"p", "q"}

\* the texts handed to splitIntoChunks
Texts == UNION { [1..n -> TextChars] : n \in 0..MaxTextLen }

\* the counts handed to splitIntoChunks: some `<= 0`, small ones, and 100
Counts == (-1..MaxCount) \cup {NumChunks}

ChunkerInit ==
    /\ store = EmptyBag
    /\ call = [c \in Calls |-> NoLocals("idle", <<>>, "none")]
    /\ previous = NoPrevious
    /\ chatCall = NoChat
    /\ chunker \in { [pc |-> "called", text |-> t, numChunks |-> n, chunks |-> <<>>] :
                       t \in Texts, n \in Counts }

\* `if (numChunks <= 0) throw new Error(...)`
splitIntoChunks_throws ==
    /\ chunker.pc = "called"
    /\ chunker.numChunks <= 0
    /\ chunker' = [chunker EXCEPT !.pc = "thrown"]
    /\ UNCHANGED <<store, call, previous, chatCall>>

\* the loop runs and `return chunks`
splitIntoChunks_returns ==
    /\ chunker.pc = "called"
    /\ chunker.numChunks > 0
    /\ chunker' = [chunker EXCEPT !.pc = "returned",
                                  !.chunks = splitIntoChunks(chunker.text, chunker.numChunks)]
    /\ UNCHANGED <<store, call, previous, chatCall>>

ChunkerNext == splitIntoChunks_throws \/ splitIntoChunks_returns

ChunkerSpec == ChunkerInit /\ [][ChunkerNext]_vars

RECURSIVE Concat(_)
Concat(seqs) == IF seqs = <<>> THEN <<>> ELSE Head(seqs) \o Concat(Tail(seqs))

\* C12: for every text and every count > 0 the chunks splitIntoChunks returns,
\* concatenated in order, are exactly the text: no character is lost,
\* duplicated or reordered.
C12_ChunksConcatenateToText ==
    chunker.pc = "returned" => Concat(chunker.chunks) = chunker.text

\* a text of two different characters was split into more than one chunk, the
\* last one shorter than the first
C12_Witness ==
    /\ chunker.pc = "returned"
    /\ Len(chunker.chunks) >= 2
    /\ \E j, k \in 1..Len(chunker.text) : chunker.text[j] # chunker.text[k]
    /\ Len(chunker.chunks[Len(chunker.chunks)]) < Len(chunker.chunks[1])

\* the least k with k * size >= len, for size > 0
CeilOf(len, size) == CHOOSE k \in 0..len : k * size >= len /\ \A j \in 0..(k - 1) : j * size < len

\* C13: for every text and count > 0, with size = ceil(len(text) / count),
\* splitIntoChunks returns exactly ceil(len(text) / size) chunks when the text
\* is not empty and the empty sequence when it is; the number of chunks never
\* exceeds count.
C13_NumberOfChunks ==
    chunker.pc = "returned"
    => LET len == Len(chunker.text)
           size == CeilOf(len, chunker.numChunks)
       IN  /\ len > 0 => Len(chunker.chunks) = CeilOf(len, size)
           /\ len = 0 => chunker.chunks = <<>>
           /\ Len(chunker.chunks) <= chunker.numChunks

\* a text of length 5 split with count 100 gave 5 one-character chunks
C13_Witness ==
    /\ chunker.pc = "returned"
    /\ Len(chunker.text) = 5
    /\ chunker.numChunks = NumChunks
    /\ Len(chunker.chunks) = 5
    /\ \A k \in 1..5 : Len(chunker.chunks[k]) = 1

\* ------------------------------------------------------------------- chat
\* nResults: 3
NResults == 3

\* the questions handed to chat; '' is the default
Questions == { <<>>, <<"q">> }

\* the URLs whose pages the collection holds when chat is called; "" is the
\* default of ingest(url = "")
ChatUrls == { <<>>, <<"c">> }

\* the characters of those pages: a blank and a letter
PageChars == {" ", "p"}

\* the bodies of those pages as they were ingested; <<>> is a page that was
\* never ingested
Pages == UNION { [1..n -> PageChars] : n \in 0..MaxPageLen }

\* the collections ingest has left for chat: one record for each character of
\* each page, splitIntoChunks(body, 100) making one-character chunks of a
\* body shorter than 100
ChatStores ==
    { Ingested(<<>>, b1, "m1") (+) Ingested(<<"c">>, b2, "m1") : b1, b2 \in Pages }

\* the characters String.prototype.trim removes
Whitespace == {" "}

RECURSIVE TrimStart(_)
TrimStart(s) ==
    IF s # <<>> /\ Head(s) \in Whitespace THEN TrimStart(Tail(s)) ELSE s

RECURSIVE TrimEnd(_)
TrimEnd(s) ==
    IF s # <<>> /\ s[Len(s)] \in Whitespace THEN TrimEnd(SubSeq(s, 1, Len(s) - 1)) ELSE s

\* e.trim()
trim(e) == TrimEnd(TrimStart(e))

\* the filter of chat: e => e.trim() !== '' && !!e
Kept(e) == trim(e) # <<>> /\ e # <<>>

\* collectionResult.metadatas[0].map((e) => e.body).filter(...)
Bodies0(metadatas0) == SelectSeq([k \in 1..Len(metadatas0) |-> metadatas0[k].body], Kept)

\* collectionResult.metadatas[0].map((e) => e.url).filter(...)
Urls0(metadatas0) == SelectSeq([k \in 1..Len(metadatas0) |-> metadatas0[k].url], Kept)

\* list.join(', ')
RECURSIVE join(_, _)
join(list, separator) ==
    IF list = <<>> THEN <<>>
    ELSE IF Len(list) = 1 THEN list[1]
    ELSE list[1] \o separator \o join(Tail(list), separator)

\* the messages handed to openai.chat.completions.create
Messages(question, url, body) ==
    << [role |-> "system", content |-> <<"You are an AI support agent">>],
       [role |-> "user",
        content |-> <<"Query: ">> \o question
                    \o <<"URl: ">> \o join(url, <<",", " ">>)
                    \o <<"Retrieved conext: ">> \o join(body, <<",", " ">>)] >>

\* openAIResponse.choices[0].message.content: the generative service answers
\* the messages it is given
Completion(messages) == <<"completion: ">> \o messages[2].content

\* url[0]
First(list) == IF list = <<>> THEN Undefined ELSE list[1]

\* the object chat logs
Logged(completion, url) == [message |-> <<"bot: ">> \o completion, url |-> First(url)]

\* collection.query({ nResults: n, queryEmbeddings }): metadatas[0], the
\* metadata of the n nearest records, or of all when the collection holds
\* fewer, in the order the collection ranks them
QueryResults(st, n) ==
    LET recs == BagToSet(st)
        k == Min(n, Cardinality(recs))
    IN  { [j \in 1..k |-> rs[j].metadata] :
            rs \in { f \in [1..k -> recs] : \A i, j \in 1..k : f[i] = f[j] => i = j } }

ChatInit ==
    /\ store \in ChatStores
    /\ call = [c \in Calls |-> NoLocals("idle", <<>>, "none")]
    /\ previous = NoPrevious
    /\ chatCall = NoChat
    /\ chunker = NoSplit

\* chat(q) is called: the code up to the first await
chat(q) ==
    /\ chatCall.pc = "idle"
    /\ chatCall' = [chatCall EXCEPT !.pc = "embed", !.question = q]
    /\ UNCHANGED <<store, call, previous, chunker>>

\* generateVectorEmbeddings({text: question}) returns; getOrCreateCollection
\* and collection.query are called
chat_embedded ==
    /\ chatCall.pc = "embed"
    /\ chatCall' = [chatCall EXCEPT !.pc = "query",
                                    !.questionEmbedding =
                                       generateVectorEmbeddings(chatCall.question)]
    /\ UNCHANGED <<store, call, previous, chunker>>

\* a chat that throws when the query returns no record
chat_queried_needsContext ==
    /\ chatCall.pc = "query"
    /\ \E metadatas0 \in QueryResults(store, NResults) :
         chatCall' = IF metadatas0 = <<>>
                     THEN [chatCall EXCEPT !.pc = "done", !.outcome = "threw"]
                     ELSE [chatCall EXCEPT
                             !.pc = "generate",
                             !.collectionResult = metadatas0,
                             !.body = Bodies0(metadatas0),
                             !.url = Urls0(metadatas0),
                             !.asked = <<Messages(chatCall.question, Urls0(metadatas0),
                                                  Bodies0(metadatas0))>>]
    /\ UNCHANGED <<store, call, previous, chunker>>

\* collection.query returns: body and url are extracted and filtered, and
\* openai.chat.completions.create is called with the messages
chat_queried ==
    /\ chatCall.pc = "query"
    /\ \E metadatas0 \in QueryResults(store, NResults) :
         chatCall' = [chatCall EXCEPT
                        !.pc = "generate",
                        !.collectionResult = metadatas0,
                        !.body = Bodies0(metadatas0),
                        !.url = Urls0(metadatas0),
                        !.asked = <<Messages(chatCall.question, Urls0(metadatas0),
                                             Bodies0(metadatas0))>>]
    /\ UNCHANGED <<store, call, previous, chunker>>

\* openai.chat.completions.create returns: the object is logged and chat
\* returns (nothing: the function has no return statement)
chat_generated ==
    /\ chatCall.pc = "generate"
    /\ chatCall' = [chatCall EXCEPT
                      !.pc = "done",
                      !.logged = <<Logged(Completion(chatCall.asked[1]), chatCall.url)>>,
                      !.outcome = "returned"]
    /\ UNCHANGED <<store, call, previous, chunker>>

\* a chat that goes on without what the failed call was to give it
chat_awaitRejects_goesOn ==
    /\ chatCall.pc \in {"embed", "query", "generate"}
    /\ chatCall' = [chatCall EXCEPT
                      !.pc = "done",
                      !.asked = <<Messages(chatCall.question, <<>>, <<>>)>>,
                      !.logged = <<Logged(<<>>, chatCall.url)>>,
                      !.outcome = "returned"]
    /\ UNCHANGED <<store, call, previous, chunker>>

\* the awaited collaborator call (embedding service, store, generative
\* service) rejects: chat has no try/catch, the rejection leaves it
chat_awaitRejects ==
    /\ chatCall.pc \in {"embed", "query", "generate"}
    /\ chatCall' = [chatCall EXCEPT !.pc = "done", !.outcome = "rejected"]
    /\ UNCHANGED <<store, call, previous, chunker>>

ChatNext ==
    \/ \E q \in Questions : chat(q)
    \/ chat_embedded
    \/ chat_queried
    \/ chat_generated
    \/ chat_awaitRejects

ChatSpec == ChatInit /\ [][ChatNext]_vars

\* every character of s is a blank (s may be empty)
IsBlank(s) == \A k \in 1..Len(s) : s[k] = " "

HasText(m) == ~IsBlank(m.body)

\* C14: chat gives out, together with the completion, the URL of the top
\* (first-ranked) record the store query returned, for every query result,
\* those whose first-ranked record has a blank body or an empty url included.
C14_ReportsTopUrl ==
    (chatCall.outcome = "returned" /\ chatCall.collectionResult # <<>>)
    => /\ Len(chatCall.logged) = 1
       /\ chatCall.url # <<>>
       /\ chatCall.logged[1].url = chatCall.collectionResult[1].url

\* C15: a retrieved record whose body is empty or whitespace-only is left out
\* of the context: the bodies and the URLs placed in the prompt are those of
\* the remaining records, in the order the store returned them.
C15_ContextFromSameRecords ==
    chatCall.asked # <<>>
    => LET remaining == SelectSeq(chatCall.collectionResult, HasText)
           bodies == [k \in 1..Len(remaining) |-> remaining[k].body]
           urls == [k \in 1..Len(remaining) |-> remaining[k].url]
       IN  /\ chatCall.body = bodies
           /\ chatCall.url = urls
           /\ chatCall.asked[1][2].content =
                 <<"Query: ">> \o chatCall.question
                 \o <<"URl: ">> \o join(urls, <<",", " ">>)
                 \o <<"Retrieved conext: ">> \o join(bodies, <<",", " ">>)

\* C16: when the store holds no record, the query of chat gives an empty
\* context set and, unless a collaborator call fails, chat still calls the
\* generative service, with an empty URL list and an empty context, and
\* returns.
C16_EmptyStoreStillGenerates ==
    [][(store = EmptyBag /\ chatCall'.outcome # "rejected")
       => /\ chatCall.pc = "query"
             => /\ chatCall'.pc = "generate"
                /\ chatCall'.collectionResult = <<>>
                /\ chatCall'.body = <<>>
                /\ chatCall'.url = <<>>
                /\ Len(chatCall'.asked) = 1
                /\ chatCall'.asked[1][2].content =
                      <<"Query: ">> \o chatCall.question
                      \o <<"URl: ">> \o <<"Retrieved conext: ">>
          /\ chatCall.pc = "generate"
             => /\ chatCall'.outcome = "returned"
                /\ Len(chatCall'.logged) = 1]_vars

\* chat has answered a question over an empty store
C16_Witness ==
    /\ store = EmptyBag
    /\ chatCall.outcome = "returned"
    /\ chatCall.question # <<>>
    /\ Len(chatCall.asked) = 1
    /\ chatCall.url = <<>>
    /\ chatCall.body = <<>>

\* C17: a failure of the embedding call, the store query or the generation
\* call leaves chat as a rejection, with no retry and no partial answer: the
\* generative service is never called after a failed embedding or query,
\* nothing is logged after a failed generation, and the call does nothing
\* after it has ended.
C17_FailuresPropagate ==
    [][LET Rejects == /\ chatCall'.pc = "done"
                      /\ chatCall'.outcome = "rejected"
                      /\ chatCall'.logged = <<>>
                      /\ chatCall'.asked = chatCall.asked
       IN  /\ chatCall.pc = "embed"
              => \/ Rejects /\ chatCall'.asked = <<>>
                 \/ chatCall'.pc = "query" /\ chatCall'.asked = <<>>
           /\ chatCall.pc = "query"
              => \/ Rejects /\ chatCall'.asked = <<>>
                 \/ chatCall'.pc = "generate" /\ Len(chatCall'.asked) = 1
           /\ chatCall.pc = "generate"
              => \/ Rejects
                 \/ /\ chatCall'.pc = "done"
                    /\ chatCall'.outcome = "returned"
                    /\ chatCall'.asked = chatCall.asked
                    /\ Len(chatCall'.logged) = 1
           /\ chatCall.pc = "done" => chatCall' = chatCall]_vars

\* the generation call of a chat over a store with records has failed
C17_Witness ==
    /\ chatCall.outcome = "rejected"
    /\ Len(chatCall.asked) = 1
    /\ chatCall.collectionResult # <<>>
    /\ chatCall.logged = <<>>

\* C18: within one ingest call the steps are in order: the fetch is issued
\* only when the purge is over (the scan found no identifier of the URL, or
\* the delete of the identifiers it found has returned), the loop starts at
\* chunk 0, the upsert of chunk i is issued only when its embedding has
\* returned, and the embedding of chunk i + 1 only when the upsert of chunk i
\* has returned (the record is there, inserted or found).
C18_StepsInOrder ==
    [][\A c \in Calls :
         LET p == call[c].pc
             q == call'[c].pc
             i == call[c].i
             j == call'[c].i
         IN  q # p
             => /\ q = "delete" => p = "scan"
                /\ q = "fetch"
                   => \/ p = "scan" /\ ~\E id \in Ids(store) : HasPrefix(id, call[c].url)
                      \/ p = "delete" /\ Ids(store') \cap call[c].idsToDelete = {}
                /\ q = "embed"
                   => \/ p = "fetch" /\ j = 0
                      \/ /\ p \in {"check", "add"}
                         /\ j = i + 1
                         /\ \E r \in BagToSet(store') : r.id = uniqueId(call[c].url, i)
                /\ q = "check"
                   => /\ p = "embed"
                      /\ j = i
                      /\ call'[c].chunkedBodyEmbeddings = [of |-> bodyChunks(c)[i + 1]]
                /\ q = "add" => p = "check" /\ j = i
                /\ q \in {"embed", "check", "add"} => j < Len(splitIntoChunks(call'[c].body, NumChunks))]_vars

\* a call that found records of its URL has purged them, fetched, and
\* upserted chunk 0 before the embedding of chunk 1
C18_Witness ==
    \E c \in Calls :
        /\ call[c].pc = "embed"
        /\ call[c].i = 1
        /\ call[c].overlap = "none"
        /\ \E id \in call[c].idsAtStart : HasPrefix(id, call[c].url)
        /\ uniqueId(call[c].url, 0) \in Ids(store)

\* C19: in an ingest call that runs with no other ingest interleaved the
\* dedup guard never skips: after the purge the store holds no identifier
\* "<url>_chunk_<i>" but those of the chunks the call has inserted, so the
\* existence check of every chunk finds nothing, and the call never logs
\* "already exists".
C19_SoloCallNeverSkips ==
    \A c \in Calls :
        call[c].overlap = "none"
        => /\ call[c].logged = <<>> \/ call[c].logged[1] # "exists"
           /\ call[c].pc \in {"fetch", "embed", "check", "add"}
              => { id \in Ids(store) : HasPrefix(id, call[c].url) }
                    = { uniqueId(call[c].url, k) : k \in 0..(call[c].i - 1) }

\* a call running alone is about to insert chunk 1, whose identifier the
\* store held before the purge
C19_Witness ==
    \E c \in Calls :
        /\ call[c].pc = "add"
        /\ call[c].i = 1
        /\ call[c].overlap = "none"
        /\ uniqueId(call[c].url, 1) \in call[c].idsAtStart
        /\ uniqueId(call[c].url, 1) \notin Ids(store)

\* the place of an await in the loop body
Rank(pc) == CASE pc = "embed" -> 0 [] pc = "check" -> 1 [] pc = "add" -> 2

\* C20: every ingest call eventually finishes (success, empty-body early
\* exit or caught failure) when each collaborator call eventually returns or
\* fails; and the loop makes at most one embedding call and one upsert for
\* each chunk: every step in the loop moves on, to the next await of the same
\* chunk or to the next chunk, and the index stays below the number of
\* chunks.
C20_EveryCallFinishes ==
    /\ \A c \in Calls : InFlight(c) ~> (call[c].pc = "done")
    /\ [][\A c \in Calls :
            (/\ call'[c].pc # call[c].pc
             /\ call[c].pc \in {"embed", "check", "add"}
             /\ call'[c].pc \in {"embed", "check", "add"})
            => /\ 3 * call'[c].i + Rank(call'[c].pc) > 3 * call[c].i + Rank(call[c].pc)
               /\ call'[c].i < Len(bodyChunks(c))
               /\ call'[c].body = call[c].body]_vars

\* every call of the run has finished, one of them after a loop of two chunks
C20_Witness ==
    /\ \A c \in Calls : call[c].pc = "done"
    /\ previous.outcome = "success"
    /\ Len(previous.body) = 2

====
